---- MODULE Spec2Model ----
(***************************************************************************)
(* netscan (src/netscan/cli.py): the command line entry point main, the    *)
(* thread-pooled scan_network, the probes ping_host and scan_host, the     *)
(* reverse lookup resolve_hostname, and the two sinks (display_results and *)
(* the CSV writer of main).                                                *)
(*                                                                         *)
(* Addresses are the integers 1..n in the order net.hosts() enumerates     *)
(* them.  The network, the subprocess and the resolver are the environment:*)
(* each call into them ends in one of the outcome classes listed below,    *)
(* chosen nondeterministically.                                            *)
(***************************************************************************)
EXTENDS Integers, Sequences, FiniteSets, TLC

\* ---------------------------------------------------------------- bounds
MaxHosts == 2
MaxPorts == 2
MaxWorkers == 2

\* ------------------------------------------------------ program constants
DefaultMaxWorkers == 100
MinPort == 1
MaxPort == 65535
NonePort == -1

\* The port numbers a command line may carry in the model: two valid ones
\* and one on each side of the valid range.
PortValues == {0, 22, 80, 65536}

\* The --timeout values (type=float): finite ones in seconds, and the floats
\* inf, nan and 1e30 ("huge"), which argparse accepts as well.
Finite(secs) == [kind |-> "finite", secs |-> secs]
TimeoutValues ==
    {Finite(-1), Finite(0), Finite(1)}
    \cup {[kind |-> k, secs |-> 0] : k \in {"inf", "nan", "huge"}}

\* The part of the COMMON_PORTS table over PortValues, keys in table order.
COMMON_PORTS_KEYS == <<22, 80>>

COMMON_PORTS_get(port) ==
    CASE port = 22 -> "SSH"
      [] port = 80 -> "HTTP"
      [] OTHER -> "Unknown"

\* Outcome classes of the environment.
\* ping_host: str(int(timeout)) is evaluated before the subprocess is started
\* and raises on inf (OverflowError) and nan (ValueError); otherwise the
\* subprocess exits (rc0, rc_nonzero), overruns the subprocess-level timeout
\* (TimeoutExpired) or cannot be started (OSError).
PingOutcomes(to) ==
    CASE to.kind = "inf" -> {"OverflowError"}
      [] to.kind = "nan" -> {"ValueError"}
      [] OTHER -> {"rc0", "rc_nonzero", "TimeoutExpired", "OSError"}
LookupOutcomes == {"resolved", "herror", "OSError"}

SeqsUpTo(S, n) == UNION {[1..k -> S] : k \in 0..n}

\* An optional port list: None, or a list.
None == [is_none |-> TRUE, list |-> <<>>]
Some(l) == [is_none |-> FALSE, list |-> l]

VARIABLES
    mainPc,        \* where main is: validate_network, validate_port, ...
    args,          \* the parsed command line
    exit_status,   \* -1 while running, else the process's exit status
    scanPc,        \* where scan_network is
    timeout,       \* scan_network's timeout argument
    current,       \* the future the loop body is running on, or 0
    ip_list,       \* list(net.hosts())
    ports,         \* scan_network's ports argument
    max_workers,   \* scan_network's max_workers argument
    future,        \* the futures of future_to_ip, in submission order
    work_queue,    \* the executor's FIFO of work items (future indices)
    threads,       \* the executor's worker threads
    idle_sem,      \* the executor's idle semaphore
    yielded,       \* the futures as_completed has handed out
    results,       \* scan_network's results list
    progress,      \* completed count of the progress task
    attempts,      \* per address, the probes issued so far with their outcome
    runs,          \* per address, how often its work item was started
    call_raised,   \* some probe or reverse lookup raised
    lookup_raised, \* some reverse lookup raised
    table,         \* the rows display_results added
    csv            \* the rows written to the CSV file

mainVars == <<mainPc, args, exit_status, table, csv>>
scanVars == <<scanPc, timeout, current, ip_list, ports, max_workers, future, work_queue, threads,
              idle_sem, yielded, results, progress, attempts, runs, call_raised,
              lookup_raised>>
vars == <<mainPc, args, exit_status, scanPc, timeout, current, ip_list, ports, max_workers, future,
          work_queue, threads, idle_sem, yielded, results, progress, attempts,
          runs, call_raised, lookup_raised, table, csv>>

\* ------------------------------------------------------------ the probes

\* ping_host: only subprocess.TimeoutExpired is caught; an OSError of the
\* start (FileNotFoundError, PermissionError) and the errors of int(timeout)
\* leave the function.
ping_host(outcome) ==
    [raised |-> outcome \notin {"rc0", "rc_nonzero", "TimeoutExpired"},
     value  |-> outcome = "rc0"]

\* What one pass over "with socket.create_connection((ip, port), timeout)"
\* ends in.  With a timeout >= 0: the connection (and the close on leaving the
\* with block succeeds, or raises OSError), or socket.timeout,
\* ConnectionRefusedError or another OSError (unreachable, permission, no
\* socket to be had).  Otherwise no connect is tried: the socket cannot be had
\* (OSError), or settimeout raises ValueError (a negative timeout, nan) or
\* OverflowError (inf, 1e30), neither an OSError.
ConnectOutcomes(to) ==
    CASE to.kind = "finite" /\ to.secs >= 0 ->
            {"connected", "connected_close_error", "timeout",
             "ConnectionRefusedError", "OSError"}
      [] to.kind \in {"finite", "nan"} -> {"OSError", "ValueError"}
      [] OTHER -> {"OSError", "OverflowError"}

\* The except clause of scan_host's loop body.
ScanHostCatches(outcome) ==
    outcome \in {"timeout", "ConnectionRefusedError", "OSError"}

\* One pass of scan_host's loop body over port, from the list so far.  The
\* append of (port, True) is inside the with block: when the close on leaving
\* it raises OSError, the except clause appends (port, False) as well.
ScanHostStep(res, port, outcome) ==
    CASE outcome = "connected" ->
            [raised |-> FALSE, value |-> Append(res, <<port, TRUE>>)]
      [] outcome = "connected_close_error" ->
            [raised |-> FALSE,
             value |-> Append(Append(res, <<port, TRUE>>), <<port, FALSE>>)]
      [] ScanHostCatches(outcome) ->
            [raised |-> FALSE, value |-> Append(res, <<port, FALSE>>)]
      [] OTHER -> [raised |-> TRUE, value |-> res]

\* resolve_hostname: only socket.herror is caught.
resolve_hostname(outcome) ==
    [raised |-> outcome \notin {"resolved", "herror"},
     value  |-> IF outcome = "resolved" THEN "host" ELSE "-"]

\* ------------------------------------------------------------ the executor

\* [str(ip) for ip in net.hosts()]
hosts(n) == [k \in 1..n |-> "10.0.0." \o ToString(k)]

PendingFuture == [state |-> "PENDING", result |-> <<>>, exc |-> FALSE]
IdleThread == [task |-> 0, idx |-> 0, inflight |-> FALSE, ret |-> <<>>, raised |-> FALSE]

\* Mutants of CanSpawn: the limit dropped, the comparison turned around.
CanSpawnUnbounded(num_threads, limit) == TRUE
CanSpawnReversed(num_threads, limit) == num_threads > limit

\* ThreadPoolExecutor._adjust_thread_count: a thread is added only below the limit.
CanSpawn(num_threads, limit) == num_threads < limit

NumProbes == IF ports.is_none THEN 1 ELSE Len(ports.list)

InFlight == Cardinality({t \in DOMAIN threads : threads[t].inflight})

\* executor.submit(...) for the next address of ip_list; the comprehension
\* ends after the last one and as_completed starts.
Submit ==
    /\ scanPc = "submitting"
    /\ Len(future) < Len(ip_list)
    /\ future' = Append(future, PendingFuture)
    /\ work_queue' = Append(work_queue, Len(future) + 1)
    /\ IF idle_sem > 0
       THEN idle_sem' = idle_sem - 1 /\ threads' = threads
       ELSE /\ idle_sem' = idle_sem
            /\ threads' = IF CanSpawn(Len(threads), max_workers)
                          THEN Append(threads, IdleThread)
                          ELSE threads
    /\ scanPc' = IF Len(future) + 1 = Len(ip_list) THEN "collecting" ELSE "submitting"
    /\ UNCHANGED <<timeout, current, ip_list, ports, max_workers, yielded, results,
                   progress, attempts, runs, call_raised, lookup_raised>>
    /\ UNCHANGED mainVars

\* A worker thread takes the oldest work item and starts running it.
WorkerTake(t) ==
    /\ threads[t].task = 0
    /\ work_queue # <<>>
    /\ LET i == Head(work_queue) IN
       /\ threads' = [threads EXCEPT ![t] = [IdleThread EXCEPT !.task = i, !.idx = 1]]
       /\ future' = [future EXCEPT ![i].state = "RUNNING"]
       /\ runs' = [runs EXCEPT ![i] = @ + 1]
    /\ work_queue' = Tail(work_queue)
    /\ UNCHANGED <<scanPc, timeout, current, ip_list, ports, max_workers, idle_sem, yielded, results,
                   progress, attempts, call_raised, lookup_raised>>
    /\ UNCHANGED mainVars

\* The running function calls into the network: subprocess.run in ping_host,
\* socket.create_connection in scan_host.
ProbeBegin(t) ==
    /\ threads[t].task # 0
    /\ ~threads[t].inflight
    /\ ~threads[t].raised
    /\ threads[t].idx <= NumProbes
    /\ threads' = [threads EXCEPT ![t].inflight = TRUE]
    /\ UNCHANGED <<scanPc, timeout, current, ip_list, ports, max_workers, future, work_queue, idle_sem,
                   yielded, results, progress, attempts, runs, call_raised,
                   lookup_raised>>
    /\ UNCHANGED mainVars

\* The call comes back; the function handles what it came back with.
ProbeEndPing(t, outcome) ==
    LET r == ping_host(outcome) IN
    /\ threads' = [threads EXCEPT ![t].inflight = FALSE, ![t].idx = @ + 1,
                                  ![t].ret = r.value, ![t].raised = r.raised]
    /\ attempts' = [attempts EXCEPT ![threads[t].task] =
                       Append(@, [port |-> NonePort, completed |-> outcome = "rc0"])]
    /\ call_raised' = (call_raised \/ r.raised)

ProbeEndPort(t, outcome) ==
    LET port == ports.list[threads[t].idx]
        r == ScanHostStep(threads[t].ret, port, outcome) IN
    /\ threads' = [threads EXCEPT ![t].inflight = FALSE, ![t].idx = @ + 1,
                                  ![t].ret = r.value, ![t].raised = r.raised]
    /\ attempts' = [attempts EXCEPT ![threads[t].task] =
                       Append(@, [port |-> port,
                                  completed |-> outcome \in {"connected",
                                                             "connected_close_error"}])]
    /\ call_raised' = (call_raised \/ r.raised)

ProbeEnd(t) ==
    /\ threads[t].inflight
    /\ IF ports.is_none
       THEN \E outcome \in PingOutcomes(timeout) : ProbeEndPing(t, outcome)
       ELSE \E outcome \in ConnectOutcomes(timeout) : ProbeEndPort(t, outcome)
    /\ UNCHANGED <<scanPc, timeout, current, ip_list, ports, max_workers, future, work_queue, idle_sem,
                   yielded, results, progress, runs, lookup_raised>>
    /\ UNCHANGED mainVars

\* The function returned or raised: the work item stores that in its future
\* and the thread is idle again.
WorkerFinish(t) ==
    /\ threads[t].task # 0
    /\ ~threads[t].inflight
    /\ threads[t].raised \/ threads[t].idx > NumProbes
    /\ future' = [future EXCEPT ![threads[t].task] =
                     [state |-> "FINISHED",
                      result |-> IF threads[t].raised THEN <<>> ELSE threads[t].ret,
                      exc |-> threads[t].raised]]
    /\ threads' = [threads EXCEPT ![t] = IdleThread]
    /\ idle_sem' = idle_sem + 1
    /\ UNCHANGED <<scanPc, timeout, current, ip_list, ports, max_workers, work_queue, yielded, results,
                   progress, attempts, runs, call_raised, lookup_raised>>
    /\ UNCHANGED mainVars

\* ---------------------------------------------------------- scan_network

\* The body of one pass of the "for future in as_completed(...)" loop for
\* future i, with the outcome its reverse lookup (if any) ends in: the report
\* appended, or raised when the pass leaves the loop with an exception.
CollectPing(i, lookup) ==
    IF future[i].exc
    THEN [raised |-> TRUE, lookup_raised |-> FALSE, report |-> <<>>]
    ELSE LET is_up == future[i].result
             h == IF is_up THEN resolve_hostname(lookup)
                  ELSE [raised |-> FALSE, value |-> "-"]
         IN [raised |-> h.raised, lookup_raised |-> h.raised,
             report |-> <<ip_list[i], h.value, << <<NonePort, is_up>> >> >>]

CollectPort(i, lookup) ==
    LET port_results == IF future[i].exc THEN <<>> ELSE future[i].result
        h == resolve_hostname(lookup)
    IN [raised |-> h.raised, lookup_raised |-> h.raised,
        report |-> <<ip_list[i], h.value, port_results>>]

CollectStep(i, lookup) ==
    IF ports.is_none THEN CollectPing(i, lookup) ELSE CollectPort(i, lookup)

\* progress.update(task, advance=1)
Advance(completed) == completed + 1

\* as_completed hands out a finished future: the loop body is entered.
Yield(i) ==
    /\ scanPc = "collecting"
    /\ i \notin yielded
    /\ future[i].state = "FINISHED"
    /\ yielded' = yielded \cup {i}
    /\ current' = i
    /\ scanPc' = "in_loop"
    /\ UNCHANGED <<timeout, ip_list, ports, max_workers, future, work_queue, threads,
                   idle_sem, results, progress, attempts, runs, call_raised,
                   lookup_raised>>
    /\ UNCHANGED mainVars

\* The loop body ends: future.result() and the reverse lookup (in which the
\* consumer blocks while the workers go on) have come back or raised; the
\* report is appended and the counter advanced, or the loop is left.
LoopBody ==
    /\ scanPc = "in_loop"
    /\ current' = 0
    /\ \E lookup \in LookupOutcomes :
          LET c == CollectStep(current, lookup) IN
          IF c.raised
          THEN /\ scanPc' = "unwinding"
               /\ call_raised' = TRUE
               /\ lookup_raised' = (lookup_raised \/ c.lookup_raised)
               /\ UNCHANGED <<results, progress>>
          ELSE /\ results' = Append(results, c.report)
               /\ progress' = Advance(progress)
               /\ scanPc' = "collecting"
               /\ UNCHANGED <<call_raised, lookup_raised>>
    /\ UNCHANGED <<timeout, ip_list, ports, max_workers, future, work_queue, threads,
                   idle_sem, yielded, attempts, runs>>
    /\ UNCHANGED mainVars

AllFinished ==
    /\ Len(future) = Len(ip_list)
    /\ \A i \in DOMAIN future : future[i].state = "FINISHED"
    /\ \A t \in DOMAIN threads : threads[t].task = 0

\* as_completed is exhausted: the executor and the progress display are left
\* and the list is returned (to main, when main made the call).
ScanReturn ==
    /\ scanPc = "collecting"
    /\ yielded = DOMAIN future
    /\ AllFinished
    /\ scanPc' = "returned"
    /\ mainPc' = IF mainPc = "scanning" THEN "display" ELSE mainPc
    /\ UNCHANGED <<args, exit_status, table, csv>>
    /\ UNCHANGED <<timeout, current, ip_list, ports, max_workers, future, work_queue,
                   threads, idle_sem, yielded, results, progress, attempts, runs,
                   call_raised, lookup_raised>>

\* An exception left the loop: the executor's __exit__ waits for every work
\* item, then the exception leaves scan_network (and ends main, uncaught).
ScanRaise ==
    /\ scanPc = "unwinding"
    /\ AllFinished
    /\ scanPc' = "raised"
    /\ mainPc' = IF mainPc = "scanning" THEN "crashed" ELSE mainPc
    /\ exit_status' = IF mainPc = "scanning" THEN 1 ELSE exit_status
    /\ UNCHANGED <<args, table, csv>>
    /\ UNCHANGED <<timeout, current, ip_list, ports, max_workers, future, work_queue,
                   threads, idle_sem, yielded, results, progress, attempts, runs,
                   call_raised, lookup_raised>>

\* ------------------------------------------------------------- the sinks

TableColumns == <<"IP Address", "Hostname", "Port", "Service", "Status">>
CsvHeader == <<"IP Address", "Hostname", "Port", "Service", "Status">>

\* str(port) in the table, the csv module's rendering in the file.
TablePortCell(port) == IF port = NonePort THEN "None" ELSE ToString(port)
CsvPortCell(port) == IF port = NonePort THEN "" ELSE ToString(port)

RECURSIVE display_host(_, _, _, _)
display_host(ip, hostname, port_results, show_all) ==
    IF port_results = <<>> THEN <<>>
    ELSE LET port == Head(port_results)[1]
             status == Head(port_results)[2]
             rest == display_host(ip, hostname, Tail(port_results), show_all)
         IN IF ~show_all /\ ~status
            THEN rest
            ELSE << <<ip, hostname, TablePortCell(port), COMMON_PORTS_get(port),
                      IF status THEN "U+1F7E2 Up" ELSE "U+1F534 Down">> >> \o rest

RECURSIVE display_results(_, _)
display_results(rs, show_all) ==
    IF rs = <<>> THEN <<>>
    ELSE display_host(Head(rs)[1], Head(rs)[2], Head(rs)[3], show_all)
         \o display_results(Tail(rs), show_all)

\* Mutant of csv_host: the rows filtered as the table's are.
csv_host_filtered(ip, hostname, port_results) ==
    LET kept == SelectSeq(port_results, LAMBDA pr : args.show_all \/ pr[2])
    IN [k \in DOMAIN kept |->
           <<ip, hostname, CsvPortCell(kept[k][1]), COMMON_PORTS_get(kept[k][1]),
             IF kept[k][2] THEN "Up" ELSE "Down">>]

RECURSIVE csv_host(_, _, _)
csv_host(ip, hostname, port_results) ==
    IF port_results = <<>> THEN <<>>
    ELSE LET port == Head(port_results)[1]
             status == Head(port_results)[2]
         IN << <<ip, hostname, CsvPortCell(port), COMMON_PORTS_get(port),
                 IF status THEN "Up" ELSE "Down">> >>
            \o csv_host(ip, hostname, Tail(port_results))

RECURSIVE csv_rows(_)
csv_rows(rs) ==
    IF rs = <<>> THEN <<>>
    ELSE csv_host(Head(rs)[1], Head(rs)[2], Head(rs)[3]) \o csv_rows(Tail(rs))

\* ------------------------------------------------------------------ main

ValidPort(port) == ~(port < MinPort \/ port > MaxPort)

\* args.network: a network ipaddress parses (n hosts); a name gethostbyname
\* resolves (hostname), one it answers with gaierror (invalid), each also with
\* a closing markup tag such as [/b] in it (_tag); or a name gethostbyname
\* raises UnicodeError on (unencodable).
NetworkArgs ==
    {[kind |-> "cidr", n |-> n] : n \in 1..MaxHosts}
    \cup {[kind |-> k, n |-> 1] : k \in {"hostname", "hostname_tag"}}
    \cup {[kind |-> k, n |-> 0] : k \in {"invalid", "invalid_tag", "unencodable"}}

\* What parser.parse_args() ends in: the namespace (ok), the help or version
\* action, or a usage error (a value that does not convert, no target).
CmdLines == {"ok", "help", "version", "error"}

\* --output-csv: absent, a plain path, or a path with a closing markup tag in
\* its directory part or in its file name.
CsvPaths == {"", "plain", "tag_in_dir", "tag_in_name"}

ArgSpace ==
    [cmdline : CmdLines,
     network : NetworkArgs,
     port : SeqsUpTo(PortValues, MaxPorts),
     common_ports : BOOLEAN,
     timeout : TimeoutValues,
     show_all : BOOLEAN,
     output_csv : CsvPaths]

NoArgs == [cmdline |-> "ok", network |-> [kind |-> "invalid", n |-> 0], port |-> <<>>,
           common_ports |-> FALSE, timeout |-> Finite(1), show_all |-> FALSE,
           output_csv |-> ""]

Exit(status) ==
    /\ mainPc' = "exited"
    /\ exit_status' = status

\* An exception no handler catches: traceback, exit status 1.
Crash ==
    /\ mainPc' = "crashed"
    /\ exit_status' = 1

\* parser.parse_args(): argparse ends the process itself on -h/--help and
\* -v/--version (status 0) and on a usage error (status 2).
ParseArgs ==
    /\ mainPc = "parse_args"
    /\ CASE args.cmdline = "ok" -> mainPc' = "validate_network" /\ UNCHANGED exit_status
         [] args.cmdline = "error" -> Exit(2)
         [] OTHER -> Exit(0)
    /\ UNCHANGED <<args, table, csv>>
    /\ UNCHANGED scanVars

\* The target check.  Both messages carry the name as rich markup: a closing
\* tag in it makes console.print raise MarkupError; only socket.gaierror is
\* caught around gethostbyname.
ValidateNetwork ==
    /\ mainPc = "validate_network"
    /\ CASE args.network.kind = "cidr" ->
              mainPc' = "validate_port" /\ UNCHANGED <<args, exit_status>>
         [] args.network.kind = "hostname" ->
              /\ args' = [args EXCEPT !.network = [kind |-> "cidr", n |-> 1]]
              /\ mainPc' = "validate_port"
              /\ UNCHANGED exit_status
         [] args.network.kind = "invalid" -> Exit(1) /\ UNCHANGED args
         [] OTHER -> Crash /\ UNCHANGED args
    /\ UNCHANGED <<table, csv>>
    /\ UNCHANGED scanVars

ValidatePort ==
    /\ mainPc = "validate_port"
    /\ IF args.port # <<>> /\ \E k \in DOMAIN args.port : ~ValidPort(args.port[k])
       THEN Exit(1)
       ELSE mainPc' = "validate_timeout" /\ UNCHANGED exit_status
    /\ UNCHANGED <<args, table, csv>>
    /\ UNCHANGED scanVars

\* Mutant of TimeoutRejected: a timeout of zero let through.
TimeoutRejectedBelowZero(t) == t.kind = "finite" /\ t.secs < 0

\* args.timeout <= 0: false for inf, nan and 1e30.
TimeoutRejected(t) == t.kind = "finite" /\ t.secs <= 0

ValidateTimeout ==
    /\ mainPc = "validate_timeout"
    /\ IF TimeoutRejected(args.timeout)
       THEN Exit(1)
       ELSE mainPc' = "call_scan" /\ UNCHANGED exit_status
    /\ UNCHANGED <<args, table, csv>>
    /\ UNCHANGED scanVars

\* The ports main hands to scan_network.
MainPorts(a) ==
    IF a.common_ports THEN Some(COMMON_PORTS_KEYS)
    ELSE IF a.port # <<>> THEN Some(a.port) ELSE None

\* scan_network's first lines: the empty list, the address list.
EnterScan(n, p, to, k) ==
    /\ scanPc' = "submitting"
    /\ timeout' = to
    /\ ip_list' = hosts(n)
    /\ ports' = p
    /\ max_workers' = k
    /\ attempts' = [i \in 1..n |-> <<>>]
    /\ runs' = [i \in 1..n |-> 0]
    /\ results' = <<>>
    /\ progress' = 0

CallScan ==
    /\ mainPc = "call_scan"
    /\ mainPc' = "scanning"
    /\ EnterScan(args.network.n, MainPorts(args), args.timeout, DefaultMaxWorkers)
    /\ UNCHANGED <<current, future, work_queue, threads, idle_sem, yielded, call_raised,
                   lookup_raised>>
    /\ UNCHANGED <<args, exit_status, table, csv>>

\* display_results and the lines after it.  console.print(table) writes the
\* Status markers: a stdout that cannot encode them (ascii, latin-1) raises
\* UnicodeEncodeError when a row is shown, and main ends there.
Display ==
    /\ mainPc = "display"
    /\ table' = display_results(results, args.show_all)
    /\ \E stdout \in {"utf-8", "ascii"} :
          IF stdout = "ascii" /\ table' # <<>>
          THEN Crash
          ELSE IF args.output_csv # ""
               THEN mainPc' = "write_csv" /\ UNCHANGED exit_status
               ELSE mainPc' = "done" /\ exit_status' = 0
    /\ UNCHANGED <<args, csv>>
    /\ UNCHANGED scanVars

\* A cell of which a proper part (possibly nothing) was written.
CutCell(cell) == "cut(" \o cell \o ")"

\* What reads back from the file after a write that failed: the text is cut
\* at some byte.  Whole rows (all of them when only the last line end is
\* missing), then possibly one cut row: some of its cells, the last of them
\* whole or cut.
PartialFiles(rows) ==
    {SubSeq(rows, 1, k) : k \in 0..Len(rows)}
    \cup {Append(SubSeq(rows, 1, k), SubSeq(rows[k + 1], 1, j)) :
              k \in 0..(Len(rows) - 1), j \in 1..4}
    \cup {Append(SubSeq(rows, 1, k),
                 Append(SubSeq(rows[k + 1], 1, j), CutCell(rows[k + 1][j + 1]))) :
              k \in 0..(Len(rows) - 1), j \in 0..4}

\* The CSV branch.  no_dir: the directory is missing, its path is printed.
\* open_error: open raises, the handler prints the error, which carries the
\* path.  write_error: a write or the close raises, the handler prints the
\* error (no path in it), part of the text is in the file.  written: all rows
\* are in the file and the message, which carries the path, is printed.  A
\* printed path with a closing markup tag makes console.print raise
\* MarkupError, in the handler again.
WriteCsv ==
    /\ mainPc = "write_csv"
    /\ LET rows == <<CsvHeader>> \o csv_rows(results)
           tagged == args.output_csv \in {"tag_in_dir", "tag_in_name"} IN
       \E fs \in {"written", "no_dir", "open_error", "write_error"} :
          CASE fs = "written" ->
                  /\ csv' = rows
                  /\ IF tagged THEN Crash ELSE mainPc' = "done" /\ exit_status' = 0
            [] fs = "write_error" ->
                  csv' \in PartialFiles(rows) /\ Exit(1)
            [] fs = "open_error" ->
                  (IF tagged THEN Crash ELSE Exit(1)) /\ UNCHANGED csv
            [] OTHER ->
                  (IF args.output_csv = "tag_in_dir" THEN Crash ELSE Exit(1))
                  /\ UNCHANGED csv
    /\ UNCHANGED <<args, table>>
    /\ UNCHANGED scanVars

\* ------------------------------------------------------- specifications

ScanInitState ==
    /\ future = <<>>
    /\ work_queue = <<>>
    /\ threads = <<>>
    /\ idle_sem = 0
    /\ yielded = {}
    /\ current = 0
    /\ call_raised = FALSE
    /\ lookup_raised = FALSE
    /\ table = <<>>
    /\ csv = <<>>
    /\ exit_status = -1

\* The port lists main lets through to scan_network.
ValidPortArgs ==
    {None} \cup {Some(COMMON_PORTS_KEYS)}
    \cup {Some(l) : l \in {l \in SeqsUpTo(PortValues, MaxPorts) :
                              l # <<>> /\ \A k \in DOMAIN l : ValidPort(l[k])}}

\* scan_network called with a network of n hosts, a port list, a timeout and
\* a worker limit.
Init ==
    /\ mainPc = "library"
    /\ args = NoArgs
    /\ ScanInitState
    /\ scanPc = "submitting"
    /\ \E n \in 1..MaxHosts : /\ ip_list = hosts(n)
                              /\ attempts = [i \in 1..n |-> <<>>]
                              /\ runs = [i \in 1..n |-> 0]
    /\ ports \in ValidPortArgs
    /\ timeout \in TimeoutValues
    /\ max_workers \in 1..MaxWorkers
    /\ results = <<>>
    /\ progress = 0

ScanNext ==
    \/ Submit
    \/ \E t \in DOMAIN threads : WorkerTake(t)
    \/ \E t \in DOMAIN threads : ProbeBegin(t)
    \/ \E t \in DOMAIN threads : ProbeEnd(t)
    \/ \E t \in DOMAIN threads : WorkerFinish(t)
    \/ \E i \in DOMAIN future : Yield(i)
    \/ LoopBody
    \/ ScanReturn
    \/ ScanRaise

Next == ScanNext

Spec == Init /\ [][Next]_vars

\* Worker threads are operating system threads and every call into the
\* environment comes back: no enabled step is put off forever.
FairSpec == Init /\ [][Next]_vars /\ WF_vars(Next)

\* main, from the command line.
MainInit ==
    /\ mainPc = "parse_args"
    /\ args \in ArgSpace
    /\ ScanInitState
    /\ scanPc = "idle"
    /\ ip_list = <<>>
    /\ attempts = <<>>
    /\ runs = <<>>
    /\ ports = None
    /\ timeout = args.timeout
    /\ max_workers = DefaultMaxWorkers
    /\ results = <<>>
    /\ progress = 0

MainNext ==
    \/ ParseArgs
    \/ ValidateNetwork
    \/ ValidatePort
    \/ ValidateTimeout
    \/ CallScan
    \/ ScanNext
    \/ Display
    \/ WriteCsv

SpecMain == MainInit /\ [][MainNext]_vars

\* ------------------------------------------------------------- the claims

ReportIps == [k \in DOMAIN results |-> results[k][1]]
ReportsOf(ip) == {k \in DOMAIN results : results[k][1] = ip}

\* C1: while scan_network runs, the number of probes in flight (ping_host
\* calls, or connect attempts of scan_host) never exceeds max_workers,
\* whatever the number of addresses and of ports.
C1_ProbesWithinLimit ==
    scanPc # "idle" => InFlight <= max_workers

\* C1's case: as many probes in flight as the limit allows, while a further
\* address waits in the queue, in port-mode with more than one port.
C1_Witness ==
    /\ scanPc # "idle"
    /\ InFlight = max_workers
    /\ Len(ip_list) > max_workers
    /\ work_queue # <<>>
    /\ ~ports.is_none /\ Len(ports.list) > 1

\* C2: scan_network never aborts because of one address's failure, and what
\* it returns holds exactly one report per address of the target; in
\* port-mode an address whose task raised has an empty port-result list.
C2_OneReportPerAddress ==
    /\ scanPc \notin {"unwinding", "raised"}
    /\ scanPc = "returned" =>
          /\ Len(results) = Len(ip_list)
          /\ \A i \in DOMAIN ip_list : Cardinality(ReportsOf(ip_list[i])) = 1
          /\ \A i \in DOMAIN ip_list : \A k \in ReportsOf(ip_list[i]) :
                (~ports.is_none /\ future[i].exc) => results[k][3] = <<>>

\* C3: the list scan_network returns names the addresses in the order of
\* net.hosts(), whatever the order the tasks completed in.
C3_EnumerationOrder ==
    scanPc = "returned" => ReportIps = ip_list

\* C4: a probe never raises: whatever the underlying operation ended in,
\* ping_host and scan_host hand a boolean outcome back, so no running task and
\* no future holds an exception.
C4_ProbeNeverRaises ==
    /\ \A t \in DOMAIN threads : ~threads[t].raised
    /\ \A i \in DOMAIN future : ~future[i].exc

\* C5: resolve_hostname never propagates an error, and the hostname of every
\* report is a resolved name or "-".
C5_LookupNeverRaises ==
    /\ ~lookup_raised
    /\ \A k \in DOMAIN results : results[k][2] \in {"host", "-"}

\* C6 as stated: with a target that neither parses nor resolves, a port
\* outside 1..65535 or a timeout <= 0, main never gets to scan_network (no
\* probe is issued) and ends, by sys.exit or by a traceback, with exit
\* status 1.
InvalidArgs ==
    \/ args.network.kind \in {"invalid", "invalid_tag", "unencodable"}
    \/ \E k \in DOMAIN args.port : args.port[k] < 1 \/ args.port[k] > 65535
    \/ (args.timeout.kind = "finite" /\ args.timeout.secs <= 0)

NoScan ==
    /\ scanPc = "idle"
    /\ future = <<>> /\ threads = <<>> /\ attempts = <<>>
    /\ mainPc \in {"parse_args", "validate_network", "validate_port",
                   "validate_timeout", "exited", "crashed"}
    /\ ~ENABLED MainNext => mainPc \in {"exited", "crashed"}

C6_InvalidInputNeverScans ==
    InvalidArgs =>
        /\ NoScan
        /\ mainPc \in {"exited", "crashed"} => exit_status = 1

\* C6 amended: with such a target, port or timeout main never gets to
\* scan_network; it ends with exit status 1 when parse_args returns the
\* arguments, with 0 when the command line asks for help or the version, and
\* with 2 when argparse rejects the command line.
C6_InvalidInputExits ==
    InvalidArgs =>
        /\ NoScan
        /\ mainPc \in {"exited", "crashed"} =>
              exit_status = CASE args.cmdline = "ok" -> 1
                              [] args.cmdline = "error" -> 2
                              [] OTHER -> 0

\* C6's case: main got through the network and port checks and ended on the
\* timeout check.
C6_Witness ==
    /\ args.cmdline = "ok"
    /\ mainPc = "exited" /\ exit_status = 1
    /\ args.network.kind = "cidr"
    /\ args.port # <<>> /\ \A k \in DOMAIN args.port : args.port[k] \in 1..65535
    /\ args.timeout = Finite(0)

\* The (address, port) pairs of table rows and of CSV data rows; the table
\* writes an absent port as "None", the file as "".
TablePairs(rows) ==
    [k \in DOMAIN rows |-> <<rows[k][1], IF rows[k][3] = "None" THEN "" ELSE rows[k][3]>>]
CsvPairs(rows) == [k \in DOMAIN rows |-> <<rows[k][1], rows[k][3]>>]
CsvWritten == mainPc = "done" /\ csv # <<>>

\* C7 as stated: the CSV data rows are the pairs of the table, filtered by
\* show-all as the table is, in the same order, after the header row.
C7_CsvMatchesTable ==
    CsvWritten =>
        /\ Head(csv) = <<"IP Address", "Hostname", "Port", "Service", "Status">>
        /\ CsvPairs(Tail(csv)) = TablePairs(table)

\* C7 amended: when the export succeeds, after the header row the CSV data
\* rows are the pairs the table holds under show-all, down/closed ones included, in the same order, for
\* both values of show-all; the table alone is filtered, so file and table
\* agree exactly when show-all is set or no pair is down/closed.
C7_CsvHoldsAllPairs ==
    CsvWritten =>
        /\ Head(csv) = <<"IP Address", "Hostname", "Port", "Service", "Status">>
        /\ CsvPairs(Tail(csv)) = TablePairs(display_results(results, TRUE))
        /\ \A k \in DOMAIN table : table[k][5] = "U+1F7E2 Up" \/ args.show_all
        /\ (CsvPairs(Tail(csv)) = TablePairs(table))
              <=> (args.show_all \/ \A k \in 2..Len(csv) : csv[k][5] = "Up")

\* C7's case: show-all unset, a down/closed pair and an up pair in the results:
\* the file holds both, the table one.
C7_Witness ==
    /\ CsvWritten
    /\ ~args.show_all
    /\ table # <<>>
    /\ Len(csv) - 1 > Len(table)

\* C8: in port-mode one worker probes an address's ports one at a time in the
\* order requested, each once (no retry after a failure); the result list has
\* one entry per requested port in that order, True iff the connect completed.
C8_SequentialPorts ==
    (scanPc # "idle" /\ ~ports.is_none) =>
        \A i \in DOMAIN future :
            /\ runs[i] <= 1
            /\ Cardinality({t \in DOMAIN threads : threads[t].task = i}) <= 1
            /\ Len(attempts[i]) <= Len(ports.list)
            /\ \A j \in DOMAIN attempts[i] : attempts[i][j].port = ports.list[j]
            /\ future[i].state = "FINISHED" =>
                  /\ ~future[i].exc
                  /\ future[i].result =
                        [j \in DOMAIN ports.list |->
                            <<ports.list[j], attempts[i][j].completed>>]
            /\ \A k \in ReportsOf(ip_list[i]) : results[k][3] = future[i].result

\* C9: results and the progress counter change only in the consumer's loop,
\* never in a worker's step; results holds only reports of addresses whose
\* full batch (every requested port, or the liveness probe) has completed; the
\* counter never decreases, goes up by one per report, never exceeds the
\* number of addresses and equals it on return.
WorkerStep ==
    \E t \in DOMAIN threads :
        WorkerTake(t) \/ ProbeBegin(t) \/ ProbeEnd(t) \/ WorkerFinish(t)

C9_State ==
    /\ progress = Len(results)
    /\ progress <= Len(ip_list)
    /\ scanPc = "returned" => progress = Len(ip_list)
    /\ \A k \in DOMAIN results :
          \E i \in yielded :
              /\ ip_list[i] = results[k][1]
              /\ future[i].state = "FINISHED"
              /\ Len(attempts[i]) = NumProbes
    /\ \A k, l \in DOMAIN results : results[k][1] = results[l][1] => k = l

C9_Step ==
    /\ progress' >= progress
    /\ progress' <= progress + 1
    /\ results' # results => SubSeq(results', 1, Len(results)) = results
    /\ <<results, progress>>' # <<results, progress>> =>
          (progress' = progress + 1 /\ Len(results') = Len(results) + 1
           /\ scanPc = "in_loop" /\ current # 0 /\ current' = 0)
    /\ WorkerStep => UNCHANGED <<results, progress>>

C9_SingleWriter == []C9_State /\ [][C9_Step]_vars

\* C10: when no probe and no reverse lookup raises, scan_network eventually
\* returns; on return every work item has run exactly once and none is
\* queued or running.
C10_Termination ==
    /\ <>(scanPc = "returned" \/ call_raised)
    /\ [](scanPc = "returned" =>
            /\ Len(future) = Len(ip_list)
            /\ \A i \in DOMAIN future : future[i].state = "FINISHED" /\ runs[i] = 1
            /\ work_queue = <<>>
            /\ \A t \in DOMAIN threads : threads[t].task = 0 /\ ~threads[t].inflight)

\* C10's case: a scan of more addresses than workers has returned, no call
\* having raised.
C10_Witness ==
    /\ scanPc = "returned"
    /\ ~call_raised
    /\ Len(ip_list) > max_workers

====
